---- MODULE Spec2Model ----
(***************************************************************************)
(* video-shiksha: the credit service (CreditService), the job queue        *)
(* (QueueService over BullMQ), the web services that enqueue stage jobs    *)
(* and the worker handlers that execute them, as one state machine.        *)
(*                                                                         *)
(* Every `await` of the TypeScript source is a scheduling point: a handler *)
(* or service call is a sequence of atomic steps, one per database write   *)
(* (with the collaborator calls that precede it), and steps of different   *)
(* calls interleave freely.                                                *)
(***************************************************************************)
EXTENDS Integers, Sequences, FiniteSets, TLC

(***************************************************************************)
(* Bounds of the model.                                                    *)
(***************************************************************************)
MaxCalls == 2        \* deductCredits calls in one behaviour
MaxCredits == 5      \* largest initial balance
MaxQuantity == 2     \* largest quantity argument of deductCredits
MaxJobIds == 2       \* job ids a debit can be made on behalf of
MaxUploads == 1      \* uploadPresentation calls (parse jobs) in one behaviour
MaxScripts == 1      \* generateScript calls (scripts, TTS jobs)
MaxVideos == 1       \* successful renderVideo calls (videos, render jobs)
MaxSlides == 2       \* slides of the project
MaxAmount == 2       \* largest amount argument of addCredits
MaxStageJobs == 2    \* jobs enqueued by stage in one behaviour
MaxLines == 3        \* lines of the text LibreOffice converts a deck to
MaxElapsed == 6       \* minutes a waiting handler is followed for
MaxSlideCount == 8   \* largest slide count an estimate is asked for

\* prisma seed: `credits: 100`, the balance of the user before any job
SeedCredits == 100

VARIABLES
  credits,        \* db.user.credits of the one user
  calls,          \* the deductCredits calls: position and locals
  txLog,          \* what createCreditTransaction was called with, in order
  projectStatus,  \* db.project.status of the one project
  slides,         \* db.slide rows of the project, by slide id
  scripts,        \* db.script rows, by script id
  videos,         \* db.video rows of the project, by video id
  jobs,           \* the BullMQ jobs, by job id: queue, name, data, position
  jobRecs,        \* db.job rows, by job id
  rvResult,       \* outcome of the latest VideoService.renderVideo call
  plan,           \* db.user.plan of the one user
  ppCall,         \* the PPTService.parsePresentation call: position, locals
  addError,       \* the error of the latest rejected QueueService.addJob
  extraction,     \* the latest libreOfficeService.extractSlides call made
                  \* on its own: what the conversion did, what was returned
  quotes          \* the pre-flight estimates asked for: arguments and totals

creditVars == <<credits, calls, txLog, plan>>
webVars == <<ppCall, addError, extraction, quotes>>
pipeVars == <<projectStatus, slides, scripts, videos, jobs, jobRecs, rvResult>>
vars == <<credits, calls, txLog, projectStatus, slides, scripts, videos, jobs,
          jobRecs, rvResult, plan, ppCall, addError,
          extraction, quotes>>

(***************************************************************************)
(* packages/shared constants: the credit cost of every job type.           *)
(***************************************************************************)
JobTypes == {"PPT_PARSE", "PDF_PARSE", "DOCX_PARSE", "SCRIPT_GENERATE",
             "SCRIPT_TRANSLATE", "TTS_GENERATE", "VIDEO_RENDER",
             "SUBTITLE_GENERATE", "THUMBNAIL_GENERATE", "ANALYTICS_UPDATE"}

CREDIT_COSTS ==
  [t \in JobTypes |->
     CASE t = "PPT_PARSE" -> 0
       [] t = "PDF_PARSE" -> 1
       [] t = "DOCX_PARSE" -> 1
       [] t = "SCRIPT_GENERATE" -> 1
       [] t = "SCRIPT_TRANSLATE" -> 2
       [] t = "TTS_GENERATE" -> 2
       [] t = "VIDEO_RENDER" -> 5
       [] t = "SUBTITLE_GENERATE" -> 1
       [] t = "THUMBNAIL_GENERATE" -> 1
       [] t = "ANALYTICS_UPDATE" -> 0]

\* the five stage types of the pipeline
StageTypes == {"PPT_PARSE", "SCRIPT_GENERATE", "TTS_GENERATE", "VIDEO_RENDER",
               "SUBTITLE_GENERATE"}

\* the sum of f[x] over the elements x of S
RECURSIVE SumOver(_, _)
SumOver(f, S) ==
  IF S = {} THEN 0
  ELSE LET x == CHOOSE y \in S : TRUE IN f[x] + SumOver(f, S \ {x})

VideoQualities == {"low", "medium", "high"}

\* the `breakdown` object of PricingCalculator.calculateProjectCredits: one
\* entry per job type
PricingBreakdown(slideCount, hasCustomScript, hasSubtitles) ==
  [t \in JobTypes |->
     CASE t = "SCRIPT_GENERATE"
            -> IF hasCustomScript THEN 0 ELSE slideCount * CREDIT_COSTS[t]
       [] t = "TTS_GENERATE" -> slideCount * CREDIT_COSTS[t]
       [] t = "SUBTITLE_GENERATE"
            -> IF hasSubtitles THEN CREDIT_COSTS[t] ELSE 0
       [] OTHER -> CREDIT_COSTS[t]]

\* `totalCredits` of PricingCalculator.calculateProjectCredits:
\* Object.values(breakdown).reduce((sum, credits) => sum + credits, 0)
calculateProjectCredits(slideCount, hasCustomScript, hasSubtitles) ==
  SumOver(PricingBreakdown(slideCount, hasCustomScript, hasSubtitles),
          JobTypes)

\* JavaScript's `cost || fallback`
OrElse(cost, fallback) == IF cost = 0 THEN fallback ELSE cost

\* `videoMultiplier` of estimateProjectCredits (1.5, 0.5 or 1), in halves
VideoMultiplierHalves(videoQuality) ==
  CASE videoQuality = "high" -> 3
    [] videoQuality = "low" -> 1
    [] OTHER -> 2

\* `totalCredits` of CreditService.estimateProjectCredits, in half credits
estimateProjectCredits(slideCount, hasCustomScript, hasSubtitles, videoQuality) ==
  2 * OrElse(CREDIT_COSTS["PPT_PARSE"], 0)
  + (IF ~hasCustomScript
     THEN 2 * slideCount * OrElse(CREDIT_COSTS["SCRIPT_GENERATE"], 1)
     ELSE 0)
  + 2 * slideCount * OrElse(CREDIT_COSTS["TTS_GENERATE"], 2)
  + OrElse(CREDIT_COSTS["VIDEO_RENDER"], 5)
      * VideoMultiplierHalves(videoQuality)
  + (IF hasSubtitles
     THEN 2 * OrElse(CREDIT_COSTS["SUBTITLE_GENERATE"], 1)
     ELSE 0)

(***************************************************************************)
(* CreditService.deductCredits(userId, jobType, quantity).                 *)
(*                                                                         *)
(* A call is idle, then at "find" (before db.user.findUnique), "update"    *)
(* (the check passed, before db.user.update), "log" (before                *)
(* createCreditTransaction), and ends "done" or "failed".  `job` is the    *)
(* job the caller debits for; the function has no such parameter, so the   *)
(* code never looks at it.                                                 *)
(***************************************************************************)
CallIds == 1..MaxCalls

IdleCall == [pc |-> "idle", jobType |-> "none", quantity |-> 0, job |-> 0,
             cost |-> 0, read |-> 0, mutated |-> FALSE, deducted |-> 0,
             remaining |-> 0, error |-> "none",
             op |-> "none", newPlan |-> "none", previousPlan |-> "none",
             newBalance |-> 0]

\* `const cost = CREDIT_COSTS[jobType] * quantity`
DeductCost(jobType, quantity) == CREDIT_COSTS[jobType] * quantity

\* lines 28-32: the cost, and the early return of a free job type
DeductInvoke(c, jobType, quantity, job) ==
  /\ calls[c].pc = "idle"
  /\ LET cost == DeductCost(jobType, quantity)
         started == [IdleCall EXCEPT !.jobType = jobType, !.quantity = quantity,
                                     !.job = job, !.cost = cost]
     IN calls' = [calls EXCEPT ![c] =
                    IF cost = 0
                    THEN [started EXCEPT !.pc = "done", !.deducted = 0]
                    ELSE [started EXCEPT !.pc = "find"]]
  /\ UNCHANGED <<credits, txLog, plan>>
  /\ UNCHANGED <<pipeVars, webVars>>

\* a slip in the comparison: a cost equal to the balance is refused
DeductInsufficient_OffByOne(userCredits, cost) == userCredits <= cost

\* `if (user.credits < cost) throw`
DeductInsufficient(userCredits, cost) == userCredits < cost

\* lines 34-45: read the user, throw when the balance read is below the cost
DeductFind(c) ==
  /\ calls[c].pc = "find"
  /\ calls' = [calls EXCEPT ![c] =
       IF DeductInsufficient(credits, calls[c].cost)
       THEN [@ EXCEPT !.pc = "failed", !.read = credits,
                      !.error = "Insufficient credits"]
       ELSE [@ EXCEPT !.pc = "update", !.read = credits]]
  /\ UNCHANGED <<credits, txLog, plan>>
  /\ UNCHANGED <<pipeVars, webVars>>

\* lines 47-54: `credits: { decrement: cost }`, unconditional
DeductUpdate(c) ==
  /\ calls[c].pc = "update"
  /\ credits' = credits - calls[c].cost
  /\ calls' = [calls EXCEPT ![c] =
       [@ EXCEPT !.pc = "log", !.mutated = TRUE, !.remaining = credits']]
  /\ UNCHANGED <<txLog, plan>>
  /\ UNCHANGED <<pipeVars, webVars>>

\* createCreditTransaction: logs the transaction, stores nothing in the db
createCreditTransaction(type, amount) ==
  txLog' = Append(txLog, [type |-> type, amount |-> amount])

\* lines 56-67: record the transaction and return
DeductLog(c) ==
  /\ calls[c].pc = "log"
  /\ createCreditTransaction("DEDUCTION", calls[c].cost)
  /\ calls' = [calls EXCEPT ![c] =
       [@ EXCEPT !.pc = "done", !.deducted = calls[c].cost]]
  /\ UNCHANGED <<credits, plan>>
  /\ UNCHANGED <<pipeVars, webVars>>

(***************************************************************************)
(* CreditService.addCredits(userId, amount, reason) and                    *)
(* CreditService.upgradePlan(userId, newPlan).  An addCredits call is at   *)
(* "addUpdate" (before db.user.update) and then at "addLog" (before        *)
(* createCreditTransaction); an upgradePlan call is at "upFind" (before    *)
(* db.user.findUnique), "upUpdate" (before its db.user.update) and then    *)
(* goes through the two positions of the addCredits it calls.              *)
(***************************************************************************)
SubscriptionPlans == {"FREE", "BASIC", "PRO", "ENTERPRISE"}

\* getPlanBenefits(plan).monthlyCredits
MonthlyCredits(p) ==
  CASE p = "FREE" -> 10
    [] p = "BASIC" -> 100
    [] p = "PRO" -> 500
    [] p = "ENTERPRISE" -> 2000

AddInvoke(c, amount) ==
  /\ calls[c].pc = "idle"
  /\ calls' = [calls EXCEPT ![c] =
       [IdleCall EXCEPT !.op = "addCredits", !.cost = amount,
                        !.pc = "addUpdate"]]
  /\ UNCHANGED <<credits, txLog, plan>>
  /\ UNCHANGED <<pipeVars, webVars>>

\* `credits: { increment: amount }`
AddIncrement(balance, amount) == balance + amount

\* addCredits, lines 71-78; the newBalance an upgradePlan call returns is
\* the one of its own update
AddUpdate(c) ==
  /\ calls[c].pc = "addUpdate"
  /\ credits' = AddIncrement(credits, calls[c].cost)
  /\ calls' = [calls EXCEPT ![c] =
       [@ EXCEPT !.pc = "addLog", !.mutated = TRUE,
                 !.newBalance = IF calls[c].op = "addCredits"
                                THEN credits' ELSE @]]
  /\ UNCHANGED <<txLog, plan>>
  /\ UNCHANGED <<pipeVars, webVars>>

\* addCredits, lines 80-84
AddLog(c) ==
  /\ calls[c].pc = "addLog"
  /\ createCreditTransaction("ADDITION", calls[c].cost)
  /\ calls' = [calls EXCEPT ![c] = [@ EXCEPT !.pc = "done"]]
  /\ UNCHANGED <<credits, plan>>
  /\ UNCHANGED <<pipeVars, webVars>>

UpgradeInvoke(c, newPlan) ==
  /\ calls[c].pc = "idle"
  /\ calls' = [calls EXCEPT ![c] =
       [IdleCall EXCEPT !.op = "upgradePlan", !.newPlan = newPlan,
                        !.pc = "upFind"]]
  /\ UNCHANGED <<credits, txLog, plan>>
  /\ UNCHANGED <<pipeVars, webVars>>

\* upgradePlan, lines 278-291
UpgradeFind(c) ==
  /\ calls[c].pc = "upFind"
  /\ calls' = [calls EXCEPT ![c] =
       IF plan = calls[c].newPlan
       THEN [@ EXCEPT !.pc = "failed",
                      !.error = "User already has this plan"]
       ELSE [@ EXCEPT !.pc = "upUpdate", !.previousPlan = plan,
                      !.cost = MonthlyCredits(calls[c].newPlan)]]
  /\ UNCHANGED <<credits, txLog, plan>>
  /\ UNCHANGED <<pipeVars, webVars>>

\* upgradePlan, lines 293-310: the update of plan and credits, then the call
\* of addCredits with the same amount
UpgradeUpdate(c) ==
  /\ calls[c].pc = "upUpdate"
  /\ plan' = calls[c].newPlan
  /\ credits' = credits + calls[c].cost
  /\ calls' = [calls EXCEPT ![c] =
       [@ EXCEPT !.pc = "addUpdate", !.newBalance = credits']]
  /\ UNCHANGED txLog
  /\ UNCHANGED <<pipeVars, webVars>>

\* extractSlides not called
NoExtraction == [called |-> FALSE, throws |-> FALSE, text |-> <<>>,
                 result |-> <<>>]

\* parsePresentation not called: `savedSlides` not yet assigned
IdlePP == [pc |-> "idle", savedSlides |-> <<>>, failedAt |-> 0]

\* no estimate asked for yet; totals are kept in half credits, the unit of
\* the quality multipliers 1.5 and 0.5
NoQuote == [called |-> FALSE, slideCount |-> 0, hasCustomScript |-> FALSE,
            hasSubtitles |-> TRUE, videoQuality |-> "medium",
            halfCredits |-> 0]

NoQuotes == [pricing |-> NoQuote, estimate |-> NoQuote]

\* the seeded user (plan PRO) with a project just created (DRAFT), no deck
\* uploaded yet
InitPipe ==
  /\ plan = "PRO"
  /\ ppCall = IdlePP
  /\ addError = "none"
  /\ extraction = NoExtraction
  /\ quotes = NoQuotes
  /\ projectStatus = "DRAFT"
  /\ slides = <<>>
  /\ scripts = <<>>
  /\ videos = <<>>
  /\ jobs = <<>>
  /\ jobRecs = <<>>
  /\ rvResult = "none"

InitCredit ==
  /\ credits \in 0..MaxCredits
  /\ calls = [c \in CallIds |-> IdleCall]
  /\ txLog = <<>>
  /\ InitPipe

NextCredit ==
  \/ \E c \in CallIds, t \in StageTypes, q \in 1..MaxQuantity, j \in 1..MaxJobIds :
       DeductInvoke(c, t, q, j)
  \/ \E c \in CallIds : DeductFind(c)
  \/ \E c \in CallIds : DeductUpdate(c)
  \/ \E c \in CallIds : DeductLog(c)

SpecCredit == InitCredit /\ [][NextCredit]_vars

\* the seeded user, no project activity
InitLedger ==
  /\ credits = SeedCredits
  /\ calls = [c \in CallIds |-> IdleCall]
  /\ txLog = <<>>
  /\ InitPipe

NextLedger ==
  \/ \E c \in CallIds, t \in StageTypes, q \in 1..MaxQuantity, j \in 1..MaxJobIds :
       DeductInvoke(c, t, q, j)
  \/ \E c \in CallIds : DeductFind(c)
  \/ \E c \in CallIds : DeductUpdate(c)
  \/ \E c \in CallIds : DeductLog(c)
  \/ \E c \in CallIds, a \in 1..MaxAmount : AddInvoke(c, a)
  \/ \E c \in CallIds : AddUpdate(c)
  \/ \E c \in CallIds : AddLog(c)
  \/ \E c \in CallIds, p \in SubscriptionPlans : UpgradeInvoke(c, p)
  \/ \E c \in CallIds : UpgradeFind(c)
  \/ \E c \in CallIds : UpgradeUpdate(c)

SpecLedger == InitLedger /\ [][NextLedger]_vars

(***************************************************************************)
(* The queues (apps/web/lib/queue.ts) and the workers.                     *)
(***************************************************************************)

\* QueueService.getQueue: the queue names addJob accepts
QueueNames == {"video-processing", "script-generation", "tts-generation",
               "video-rendering"}

\* `attempts: options.attempts || 3`
DefaultAttempts == 3

NoData == [slideId |-> 0, scriptId |-> 0, videoId |-> 0, slides |-> <<>>,
           content |-> "none", voiceSettings |-> "none"]

NoRec == [exists |-> FALSE, status |-> "none", progress |-> 0,
          result |-> "null", error |-> "null"]

\* QueueService.addJob(queueName, jobType, data) with the default options:
\* queue.add, which stores the job in Redis and writes no db.job row
NewJob(queueName, jobType, data) ==
  [queue |-> queueName, name |-> jobType, data |-> data,
   attempts |-> DefaultAttempts, attemptsMade |-> 0,
   state |-> "waiting", pc |-> "none", extracted |-> <<>>, elapsed |-> 0]

addJob(queueName, jobType, data) ==
  /\ queueName \in QueueNames
  /\ jobs' = Append(jobs, NewJob(queueName, jobType, data))
  /\ jobRecs' = Append(jobRecs, NoRec)

JobIds == 1..Len(jobs)

Terminal == {"COMPLETED", "FAILED"}

\* the Job Ledger's create(projectId, stageType, payload): a db.job row with
\* status PENDING and progress 0 for a job that waits for its first execution
JobLedgerCreate(j) ==
  /\ jobs[j].state = "waiting"
  /\ jobs[j].attemptsMade = 0
  /\ ~jobRecs[j].exists
  /\ jobRecs' = [jobRecs EXCEPT ![j] =
                   [NoRec EXCEPT !.exists = TRUE, !.status = "PENDING"]]
  /\ UNCHANGED <<projectStatus, slides, scripts, videos, jobs, rvResult>>
  /\ UNCHANGED <<creditVars, webVars>>

\* the handler a worker runs for a job name on its queue (`switch (job.name)`)
WorkerHandler(queue, name) ==
  CASE queue = "video-processing" /\ name = "ppt-parse" -> "pptParseJob"
    [] queue = "script-generation" /\ name = "script-generate" -> "scriptGenerateJob"
    [] queue = "tts-generation" /\ name = "tts-generate" -> "ttsGenerateJob"
    [] queue = "video-rendering" /\ name = "video-render" -> "videoRenderJob"
    [] queue = "subtitle-generation" /\ name = "subtitle-generate"
         -> "subtitleGenerateJob"
    [] OTHER -> "unknown"

\* a worker (concurrency 1) takes a waiting job of its queue and enters the
\* handler
WorkerTake(j) ==
  /\ jobs[j].state = "waiting"
  /\ \A k \in JobIds : jobs[k].queue = jobs[j].queue => jobs[k].state # "active"
  /\ WorkerHandler(jobs[j].queue, jobs[j].name) # "unknown"
  /\ jobs' = [jobs EXCEPT ![j] = [@ EXCEPT !.state = "active", !.pc = "start"]]
  /\ UNCHANGED <<projectStatus, slides, scripts, videos, jobRecs, rvResult>>
  /\ UNCHANGED <<creditVars, webVars>>

Running(j, handler, pc) ==
  /\ jobs[j].state = "active"
  /\ WorkerHandler(jobs[j].queue, jobs[j].name) = handler
  /\ jobs[j].pc = pc

Goto(j, pc) == jobs' = [jobs EXCEPT ![j] = [@ EXCEPT !.pc = pc]]

\* the handler returned: BullMQ moves the job to completed
HandlerReturn(j) ==
  jobs' = [jobs EXCEPT ![j] = [@ EXCEPT !.state = "completed", !.pc = "none"]]

\* the handler threw: BullMQ retries the job while attempts are left
HandlerThrow(j) ==
  jobs' = [jobs EXCEPT ![j] =
    [@ EXCEPT !.attemptsMade = @ + 1,
              !.state = IF jobs[j].attemptsMade + 1 < jobs[j].attempts
                        THEN "waiting" ELSE "failed",
              !.pc = "none"]]

\* updateJobStatus(jobId, status, progress, result, error): db.job.update sets
\* status and progress always, result and error unless undefined
updateJobStatus(j, status, progress, result, error) ==
  jobRecs' = [jobRecs EXCEPT ![j] =
    [@ EXCEPT !.status = status,
              !.progress = progress,
              !.result = IF result = "undefined" THEN @ ELSE result,
              !.error = IF error = "undefined" THEN @ ELSE error]]

\* first statement of the handler's catch block
CatchStart(j) ==
  CASE WorkerHandler(jobs[j].queue, jobs[j].name) = "pptParseJob" -> "catchProject"
    [] WorkerHandler(jobs[j].queue, jobs[j].name) = "videoRenderJob" -> "catchVideo"
    [] OTHER -> "catchJob"

\* something inside the try block threw
Throw(j) == Goto(j, CatchStart(j)) /\ UNCHANGED jobRecs

\* `await updateJobStatus(job.id, 'RUNNING', progress)` inside the try block;
\* db.job.update rejects when the row does not exist
Checkpoint(j, progress, next) ==
  IF jobRecs[j].exists
  THEN updateJobStatus(j, "RUNNING", progress, "undefined", "undefined")
       /\ Goto(j, next)
  ELSE Throw(j)

\* `await updateJobStatus(job.id, 'COMPLETED', 100, {...})` and the return
Complete(j) ==
  IF jobRecs[j].exists
  THEN updateJobStatus(j, "COMPLETED", 100, "result", "undefined")
       /\ HandlerReturn(j)
  ELSE Throw(j)

\* a catch block that also rolls the audio of the project back
CatchJob_Rollback(j) ==
  /\ jobs[j].state = "active"
  /\ jobs[j].pc = "catchJob"
  /\ IF jobRecs[j].exists
     THEN updateJobStatus(j, "FAILED", 0, "null", "message")
     ELSE UNCHANGED jobRecs
  /\ HandlerThrow(j)
  /\ slides' = [i \in DOMAIN slides |-> [slides[i] EXCEPT !.audioUrl = "null"]]
  /\ UNCHANGED <<projectStatus, scripts, videos, rvResult>>
  /\ UNCHANGED <<creditVars, webVars>>

\* the end of every catch block:
\* `await updateJobStatus(job.id, 'FAILED', 0, null, error.message); throw error`
CatchJob(j) ==
  /\ jobs[j].state = "active"
  /\ jobs[j].pc = "catchJob"
  /\ IF jobRecs[j].exists
     THEN updateJobStatus(j, "FAILED", 0, "null", "message")
     ELSE UNCHANGED jobRecs
  /\ HandlerThrow(j)
  /\ UNCHANGED <<projectStatus, slides, scripts, videos, rvResult>>
  /\ UNCHANGED <<creditVars, webVars>>

\* the catch blocks of pptParseJob and videoRenderJob:
\* `db.project.update({ data: { status: 'FAILED' } })`
CatchProject(j) ==
  /\ jobs[j].state = "active"
  /\ jobs[j].pc = "catchProject"
  /\ projectStatus' = "FAILED"
  /\ Goto(j, "catchJob")
  /\ UNCHANGED <<slides, scripts, videos, jobRecs, rvResult>>
  /\ UNCHANGED <<creditVars, webVars>>

(***************************************************************************)
(* The web services that create rows and add jobs.                         *)
(***************************************************************************)

SlideIds == 1..Len(slides)

\* a row of db.slide as `db.slide.create` makes it, at position `order`; a
\* deleted row keeps its place in the sequence, marked
NewSlide(order) == [order |-> order, audioUrl |-> "null", deleted |-> FALSE]

\* the rows `db.slide.findUnique` / `findMany` can return
LiveSlides == {i \in SlideIds : ~slides[i].deleted}

\* a row of db.script as generateScript makes it: the generated text and the
\* default voice settings (`voice: 'alloy'`)
NewScript(slideId) ==
  [slideId |-> slideId, content |-> "text", voiceSettings |-> "alloy",
   deleted |-> FALSE]

ScriptIds == {k \in 1..Len(scripts) : ~scripts[k].deleted}

ScriptsOf(slideId) == {k \in ScriptIds : scripts[k].slideId = slideId}

\* the TTS jobs queued so far
TtsJobs == {j \in JobIds : jobs[j].name = "tts-generate"}

\* PPTService.uploadPresentation: stores the file and queues the parse job
UploadPresentation ==
  /\ Cardinality({j \in JobIds : jobs[j].name = "ppt-parse"}) < MaxUploads
  /\ addJob("video-processing", "ppt-parse", NoData)
  /\ UNCHANGED <<projectStatus, slides, scripts, videos, rvResult>>
  /\ UNCHANGED <<creditVars, webVars>>

\* the id `db.script.create` / `db.slide.create` gives the row it appends
CreatedId_Unsaved(rows) == Len(rows) + 2

CreatedId(rows) == Len(rows) + 1

\* ScriptService.generateScript(slideId): creates the Script of the slide and
\* queues its TTS job (when aiService.generateScript rejects, nothing changes)
GenerateScript(s) ==
  /\ Cardinality(TtsJobs) < MaxScripts
  /\ s \in LiveSlides
  /\ scripts' = Append(scripts, NewScript(s))
  /\ addJob("tts-generation", "tts-generate",
            [NoData EXCEPT !.scriptId = CreatedId(scripts),
                           !.content = NewScript(s).content,
                           !.voiceSettings = NewScript(s).voiceSettings])
  /\ UNCHANGED <<projectStatus, slides, videos, rvResult>>
  /\ UNCHANGED <<creditVars, webVars>>

\* ScriptService.regenerateScript(slideId): `db.script.deleteMany` on the
\* slide, then generateScript
RegenerateScript(s) ==
  /\ Cardinality(TtsJobs) < MaxScripts
  /\ s \in LiveSlides
  /\ scripts' = Append([k \in 1..Len(scripts) |->
                          IF scripts[k].slideId = s
                          THEN [scripts[k] EXCEPT !.deleted = TRUE]
                          ELSE scripts[k]],
                       NewScript(s))
  /\ addJob("tts-generation", "tts-generate",
            [NoData EXCEPT !.scriptId = CreatedId(scripts),
                           !.content = NewScript(s).content,
                           !.voiceSettings = NewScript(s).voiceSettings])
  /\ UNCHANGED <<projectStatus, slides, videos, rvResult>>
  /\ UNCHANGED <<creditVars, webVars>>

\* ScriptService.updateVoiceSettings(scriptId, voiceSettings): updates the
\* script (rejects when it does not exist) and queues a TTS job
UpdateVoiceSettings(k) ==
  /\ Cardinality(TtsJobs) < MaxScripts
  /\ k \in ScriptIds
  /\ scripts' = [scripts EXCEPT ![k] = [@ EXCEPT !.voiceSettings = "custom"]]
  /\ addJob("tts-generation", "tts-generate",
            [NoData EXCEPT !.scriptId = k,
                           !.content = scripts[k].content,
                           !.voiceSettings = "custom"])
  /\ UNCHANGED <<projectStatus, slides, videos, rvResult>>
  /\ UNCHANGED <<creditVars, webVars>>

\* extractSlidesFromFile: the placeholder deck has four slides
PlaceholderSlides == 4

\* queueService.addJob called once for each entry of `datas`, in order
addJobs(queueName, jobType, datas) ==
  /\ queueName \in QueueNames
  /\ jobs' = jobs \o [i \in DOMAIN datas |->
                        NewJob(queueName, jobType, datas[i])]
  /\ jobRecs' = jobRecs \o [i \in DOMAIN datas |-> NoRec]

\* PPTService.parsePresentation: `Promise.all(slides.map(... db.slide.create`
\* creates the rows with order index + 1 and keeps them in `savedSlides`,
\* then `for (const slide of savedSlides) await queueService.addJob(...)`
\* queues one script job for each
ParsePresentation ==
  /\ ppCall.pc = "idle"
  /\ LET savedSlides == [i \in 1..PlaceholderSlides |->
                           CreatedId(slides) + i - 1]
     IN /\ slides' = slides \o [i \in 1..PlaceholderSlides |-> NewSlide(i)]
        /\ addJobs("script-generation", "script-generate",
                   [i \in 1..PlaceholderSlides |->
                      [NoData EXCEPT !.slideId = savedSlides[i],
                                     !.content = "text"]])
        /\ ppCall' = [pc |-> "done", savedSlides |-> savedSlides,
                      failedAt |-> 0]
  /\ UNCHANGED <<addError, extraction, quotes>>
  /\ UNCHANGED <<projectStatus, scripts, videos, rvResult>>
  /\ UNCHANGED creditVars

\* PPTService.parsePresentation when the addJob of the m-th saved slide
\* rejects (queue.add fails): the loop is left for the catch block, which
\* throws 'Failed to parse presentation'
ParsePresentationQueueError(m) ==
  /\ ppCall.pc = "idle"
  /\ m \in 1..PlaceholderSlides
  /\ LET savedSlides == [i \in 1..PlaceholderSlides |->
                           CreatedId(slides) + i - 1]
     IN /\ slides' = slides \o [i \in 1..PlaceholderSlides |-> NewSlide(i)]
        /\ addJobs("script-generation", "script-generate",
                   [i \in 1..(m - 1) |->
                      [NoData EXCEPT !.slideId = savedSlides[i],
                                     !.content = "text"]])
        /\ ppCall' = [pc |-> "failed", savedSlides |-> savedSlides,
                      failedAt |-> m]
  /\ UNCHANGED <<addError, extraction, quotes>>
  /\ UNCHANGED <<projectStatus, scripts, videos, rvResult>>
  /\ UNCHANGED creditVars

\* PPTService.deleteSlide(slideId): `db.slide.delete`, nothing else
DeleteSlide(s) ==
  /\ s \in LiveSlides
  /\ slides' = [slides EXCEPT ![s] = [@ EXCEPT !.deleted = TRUE]]
  /\ UNCHANGED <<projectStatus, scripts, videos, jobs, jobRecs, rvResult>>
  /\ UNCHANGED <<creditVars, webVars>>

\* PPTService.reorderSlides(projectId, slideOrders), one entry of slideOrders:
\* `db.slide.update({ where: { id: slideId }, data: { order: newOrder } })`
ReorderSlides(slideId, newOrder) ==
  /\ slideId \in LiveSlides
  /\ slides' = [slides EXCEPT ![slideId] = [@ EXCEPT !.order = newOrder]]
  /\ UNCHANGED <<projectStatus, scripts, videos, jobs, jobRecs, rvResult>>
  /\ UNCHANGED <<creditVars, webVars>>

\* TTSService.generateSpeech(scriptId): synthesises the script in the request
\* and stores the audio url on its slide (when the AI service or the storage
\* rejects, nothing changes)
GenerateSpeech(k) ==
  /\ k \in ScriptIds
  /\ scripts[k].slideId \in LiveSlides
  /\ slides' = [slides EXCEPT ![scripts[k].slideId] =
                  [@ EXCEPT !.audioUrl = "url"]]
  /\ UNCHANGED <<projectStatus, scripts, videos, jobs, jobRecs, rvResult>>
  /\ UNCHANGED <<creditVars, webVars>>

\* TTSService.deleteAudio(slideId): `data: { audioUrl: null }`
DeleteAudio(s) ==
  /\ s \in LiveSlides
  /\ slides[s].audioUrl # "null"
  /\ slides' = [slides EXCEPT ![s] = [@ EXCEPT !.audioUrl = "null"]]
  /\ UNCHANGED <<projectStatus, scripts, videos, jobs, jobRecs, rvResult>>
  /\ UNCHANGED <<creditVars, webVars>>

\* the rows `db.video.findUnique` can return
VideoIds == {v \in 1..Len(videos) : ~videos[v].deleted}

\* VideoService.deleteVideo(videoId): removes the files of the video and
\* `db.video.delete` (when the storage rejects, nothing changes)
DeleteVideo(v) ==
  /\ v \in VideoIds
  /\ videos' = [videos EXCEPT ![v] = [@ EXCEPT !.deleted = TRUE]]
  /\ UNCHANGED <<projectStatus, slides, scripts, jobs, jobRecs, rvResult>>
  /\ UNCHANGED <<creditVars, webVars>>

\* the check removed: every project passes
SlidesWithoutAudio_NoCheck(projectSlides) == {}

\* `project.slides.filter(slide => !slide.audioUrl)`
SlidesWithoutAudio(projectSlides) ==
  {i \in 1..Len(projectSlides) : /\ ~projectSlides[i].deleted
                                  /\ projectSlides[i].audioUrl = "null"}

\* VideoService.renderVideo(projectId): throws when a slide has no audio,
\* else creates the Video (PENDING) and queues the render job with the slides
\* it read
RenderVideo ==
  /\ IF SlidesWithoutAudio(slides) # {}
     THEN /\ rvResult' = "failed"
          /\ UNCHANGED <<videos, jobs, jobRecs>>
     ELSE /\ Len(videos) < MaxVideos
          /\ videos' = Append(videos, [status |-> "PENDING", url |-> "null",
                                       deleted |-> FALSE])
          /\ addJob("video-rendering", "video-render",
                    [NoData EXCEPT !.videoId = Len(videos) + 1,
                                   !.slides = slides])
          /\ rvResult' = "created"
  /\ UNCHANGED <<projectStatus, slides, scripts>>
  /\ UNCHANGED <<creditVars, webVars>>

(***************************************************************************)
(* The worker handlers.  A step is the collaborator call, if any, followed *)
(* by the database write after it; a collaborator call may throw.          *)
(***************************************************************************)

(***************************************************************************)
(* libreOfficeService.extractSlides.  The text the deck converts to is a   *)
(* sequence of lines, each "Upper" (not blank, first character A-Z),       *)
(* "lower" (not blank, another first character) or "blank" (nothing but    *)
(* white space); a parsed slide is "parsed", a mock slide is its title.    *)
(***************************************************************************)
LineKinds == {"Upper", "lower", "blank"}

Texts == UNION {[1..n -> LineKinds] : n \in 0..MaxLines}

\* what the conversion does: it throws, or it leaves the text of the deck
ExtractInputs ==
  {[throws |-> TRUE, text |-> <<>>]} \cup
  {[throws |-> FALSE, text |-> t] : t \in Texts}

\* getMockSlides()
MockSlides ==
  <<"Introduction", "Main Topic", "Key Points", "Examples", "Conclusion">>

NoSlide == [open |-> FALSE, content |-> 0]

\* parseTextToSlides, the `for (const line of lines)` loop and the push of
\* the last slide after it; `content` counts the lines added to the content
RECURSIVE ParseLoop(_, _, _)
ParseLoop(lines, currentSlide, parsed) ==
  IF lines = <<>>
  THEN IF currentSlide.open /\ currentSlide.content > 0
       THEN Append(parsed, "parsed")
       ELSE parsed
  ELSE LET line == Head(lines) IN
       IF line = "Upper" /\ ~currentSlide.open
       THEN ParseLoop(Tail(lines), [open |-> TRUE, content |-> 0], parsed)
       ELSE IF currentSlide.open
       THEN IF line = "blank"
            THEN ParseLoop(Tail(lines), NoSlide,
                           IF currentSlide.content > 0
                           THEN Append(parsed, "parsed") ELSE parsed)
            ELSE ParseLoop(Tail(lines),
                           [currentSlide EXCEPT !.content = @ + 1], parsed)
       ELSE ParseLoop(Tail(lines), currentSlide, parsed)

\* `text.split('\n').filter(line => line.trim())`, then the loop
ParsedFromText(text) ==
  ParseLoop(SelectSeq(text, LAMBDA line : line # "blank"), NoSlide, <<>>)

\* parseTextToSlides without `if (slides.length === 0) return getMockSlides()`
ParseTextToSlides_NoFallback(text) == ParsedFromText(text)

\* parseTextToSlides(text)
ParseTextToSlides(text) ==
  IF Len(ParsedFromText(text)) = 0 THEN MockSlides ELSE ParsedFromText(text)

\* extractSlides(fileBuffer): the catch block returns the mock slides
ExtractSlides(input) ==
  IF input.throws THEN MockSlides ELSE ParseTextToSlides(input.text)

\* a call of libreOfficeService.extractSlides(fileBuffer), one in a behaviour
ExtractSlidesCall(input) ==
  /\ ~extraction.called
  /\ extraction' = [called |-> TRUE, throws |-> input.throws,
                    text |-> input.text, result |-> ExtractSlides(input)]
  /\ UNCHANGED <<ppCall, addError, quotes>>
  /\ UNCHANGED <<creditVars, pipeVars>>

\* apps/worker/src/jobs/ppt.parse.ts
pptParseJob(j) ==
  /\ UNCHANGED <<scripts, videos, rvResult>>
  /\ UNCHANGED <<creditVars, webVars>>
  /\ \/ /\ Running(j, "pptParseJob", "start")
        /\ Checkpoint(j, 10, "download")
        /\ UNCHANGED <<projectStatus, slides>>
     \/ /\ Running(j, "pptParseJob", "download")
        /\ \/ Throw(j)                       \* storageService.downloadFile
           \/ Checkpoint(j, 30, "extract")
        /\ UNCHANGED <<projectStatus, slides>>
     \/ /\ Running(j, "pptParseJob", "extract")
        /\ \E input \in ExtractInputs :      \* extractSlides does not throw
             IF jobRecs[j].exists
             THEN /\ updateJobStatus(j, "RUNNING", 60, "undefined", "undefined")
                  /\ jobs' = [jobs EXCEPT ![j] =
                       [@ EXCEPT !.pc = "save",
                                 !.extracted = ExtractSlides(input)]]
             ELSE Throw(j)
        /\ UNCHANGED <<projectStatus, slides>>
     \/ /\ Running(j, "pptParseJob", "save")
        /\ slides' = slides \o [i \in 1..Len(jobs[j].extracted) |-> NewSlide(i)]
        /\ Goto(j, "saved")
        /\ UNCHANGED <<projectStatus, jobRecs>>
     \/ /\ Running(j, "pptParseJob", "saved")
        /\ Checkpoint(j, 90, "project")
        /\ UNCHANGED <<projectStatus, slides>>
     \/ /\ Running(j, "pptParseJob", "project")
        /\ projectStatus' = "COMPLETED"
        /\ Goto(j, "complete")
        /\ UNCHANGED <<slides, jobRecs>>
     \/ /\ Running(j, "pptParseJob", "complete")
        /\ Complete(j)
        /\ UNCHANGED <<projectStatus, slides>>

\* apps/worker/src/jobs/script.generate.ts, scriptGenerateJob, the try block
scriptGenerateJob(j) ==
  /\ UNCHANGED <<projectStatus, slides, videos, rvResult>>
  /\ UNCHANGED <<creditVars, webVars>>
  /\ \/ /\ Running(j, "scriptGenerateJob", "start")
        /\ Checkpoint(j, 10, "slide")
        /\ UNCHANGED scripts
     \/ /\ Running(j, "scriptGenerateJob", "slide")
        /\ IF jobs[j].data.slideId \in LiveSlides
           THEN Checkpoint(j, 30, "generate")
           ELSE Throw(j)                     \* 'Slide not found'
        /\ UNCHANGED scripts
     \/ /\ Running(j, "scriptGenerateJob", "generate")
        /\ \/ Throw(j)                       \* aiService.generateScript
           \/ Checkpoint(j, 70, "create")
        /\ UNCHANGED scripts
     \/ /\ Running(j, "scriptGenerateJob", "create")
        /\ scripts' = Append(scripts, NewScript(jobs[j].data.slideId))
        /\ Goto(j, "created")
        /\ UNCHANGED jobRecs
     \/ /\ Running(j, "scriptGenerateJob", "created")
        /\ Checkpoint(j, 90, "complete")
        /\ UNCHANGED scripts
     \/ /\ Running(j, "scriptGenerateJob", "complete")
        /\ Complete(j)
        /\ UNCHANGED scripts

\* apps/worker/src/jobs/tts.generate.ts
ttsGenerateJob(j) ==
  /\ UNCHANGED <<projectStatus, scripts, videos, rvResult>>
  /\ UNCHANGED <<creditVars, webVars>>
  /\ \/ /\ Running(j, "ttsGenerateJob", "start")
        /\ Checkpoint(j, 10, "script")
        /\ UNCHANGED slides
     \/ /\ Running(j, "ttsGenerateJob", "script")
        /\ IF jobs[j].data.scriptId \in ScriptIds
           THEN Checkpoint(j, 30, "speech")
           ELSE Throw(j)                     \* 'Script not found'
        /\ UNCHANGED slides
     \/ /\ Running(j, "ttsGenerateJob", "speech")
        /\ \/ Throw(j)                       \* aiService.generateSpeech
           \/ Checkpoint(j, 70, "upload")
        /\ UNCHANGED slides
     \/ /\ Running(j, "ttsGenerateJob", "upload")
        /\ \/ Throw(j) /\ UNCHANGED slides   \* storageService.uploadBuffer
           \/ /\ scripts[jobs[j].data.scriptId].slideId \notin LiveSlides
              /\ Throw(j) /\ UNCHANGED slides \* db.slide.update rejects
           \/ /\ scripts[jobs[j].data.scriptId].slideId \in LiveSlides
              /\ slides' = [slides EXCEPT
                   ![scripts[jobs[j].data.scriptId].slideId] =
                      [@ EXCEPT !.audioUrl = "url"]]
              /\ Goto(j, "uploaded")
              /\ UNCHANGED jobRecs
     \/ /\ Running(j, "ttsGenerateJob", "uploaded")
        /\ Checkpoint(j, 90, "complete")
        /\ UNCHANGED slides
     \/ /\ Running(j, "ttsGenerateJob", "complete")
        /\ Complete(j)
        /\ UNCHANGED slides

\* apps/worker/src/jobs/video.render.ts, the try block
videoRenderJob(j) ==
  /\ UNCHANGED <<slides, scripts, rvResult>>
  /\ UNCHANGED <<creditVars, webVars>>
  /\ \/ /\ Running(j, "videoRenderJob", "start")
        /\ Checkpoint(j, 5, "video")
        /\ UNCHANGED <<projectStatus, videos>>
     \/ /\ Running(j, "videoRenderJob", "video")
        /\ IF jobs[j].data.videoId \in VideoIds
           THEN /\ videos' = [videos EXCEPT ![jobs[j].data.videoId] =
                                [@ EXCEPT !.status = "PROCESSING"]]
                /\ Goto(j, "processing")
                /\ UNCHANGED jobRecs
           ELSE Throw(j) /\ UNCHANGED videos \* 'Video not found'
        /\ UNCHANGED projectStatus
     \/ /\ Running(j, "videoRenderJob", "processing")
        /\ Checkpoint(j, 10, "prepared")
        /\ UNCHANGED <<projectStatus, videos>>
     \/ /\ Running(j, "videoRenderJob", "prepared")
        /\ Checkpoint(j, 20, "render")
        /\ UNCHANGED <<projectStatus, videos>>
     \/ /\ Running(j, "videoRenderJob", "render")
        /\ \/ Throw(j)                       \* ffmpegService.renderVideo
           \/ Checkpoint(j, 80, "upload")
        /\ UNCHANGED <<projectStatus, videos>>
     \/ /\ Running(j, "videoRenderJob", "upload")
        /\ \/ Throw(j)                       \* storageService.uploadBuffer
           \/ Checkpoint(j, 85, "thumbnail")
        /\ UNCHANGED <<projectStatus, videos>>
     \/ /\ Running(j, "videoRenderJob", "thumbnail")
        /\ \/ Throw(j)                       \* generateThumbnail, uploadBuffer
           \/ Checkpoint(j, 90, "record")
        /\ UNCHANGED <<projectStatus, videos>>
     \/ /\ Running(j, "videoRenderJob", "record")
        /\ \/ Throw(j) /\ UNCHANGED videos   \* ffmpegService.getVideoDuration
           \/ /\ jobs[j].data.videoId \notin VideoIds
              /\ Throw(j) /\ UNCHANGED videos \* db.video.update rejects
           \/ /\ jobs[j].data.videoId \in VideoIds
              /\ videos' = [videos EXCEPT ![jobs[j].data.videoId] =
                              [@ EXCEPT !.status = "COMPLETED", !.url = "url"]]
              /\ Goto(j, "project")
              /\ UNCHANGED jobRecs
        /\ UNCHANGED projectStatus
     \/ /\ Running(j, "videoRenderJob", "project")
        /\ projectStatus' = "COMPLETED"
        /\ Goto(j, "finishing")
        /\ UNCHANGED <<videos, jobRecs>>
     \/ /\ Running(j, "videoRenderJob", "finishing")
        /\ Checkpoint(j, 95, "complete")
        /\ UNCHANGED <<projectStatus, videos>>
     \/ /\ Running(j, "videoRenderJob", "complete")
        /\ Complete(j)
        /\ UNCHANGED <<projectStatus, videos>>

\* the catch block of videoRenderJob, first statement:
\* `db.video.update({ where: { id: videoId }, data: { status: 'FAILED' } })`,
\* which rejects, and ends the handler, when the Video does not exist
CatchVideo(j) ==
  /\ jobs[j].state = "active"
  /\ jobs[j].pc = "catchVideo"
  /\ IF jobs[j].data.videoId \in VideoIds
     THEN /\ videos' = [videos EXCEPT ![jobs[j].data.videoId] =
                          [@ EXCEPT !.status = "FAILED"]]
          /\ Goto(j, "catchProject")
     ELSE /\ HandlerThrow(j)
          /\ UNCHANGED videos
  /\ UNCHANGED <<projectStatus, slides, scripts, jobRecs, rvResult>>
  /\ UNCHANGED <<creditVars, webVars>>

\* the queue a stage's worker is subscribed to (`new Worker('<queue>', ...)`)
StageQueue(stage) ==
  CASE stage = "PPT_PARSE" -> "video-processing"
    [] stage = "SCRIPT_GENERATE" -> "script-generation"
    [] stage = "TTS_GENERATE" -> "tts-generation"
    [] stage = "VIDEO_RENDER" -> "video-rendering"
    [] stage = "SUBTITLE_GENERATE" -> "subtitle-generation"

\* the job name of a stage: the value of the web JobType member
StageJobName(stage) ==
  CASE stage = "PPT_PARSE" -> "ppt-parse"
    [] stage = "SCRIPT_GENERATE" -> "script-generate"
    [] stage = "TTS_GENERATE" -> "tts-generate"
    [] stage = "VIDEO_RENDER" -> "video-render"
    [] stage = "SUBTITLE_GENERATE" -> "subtitle-generate"

\* queueService.addJob(queue of the stage, JobType of the stage, data):
\* getQueue throws `Unknown queue` for a name it has no case for, else the
\* job is added
AddStageJob(stage) ==
  /\ Len(jobs) < MaxStageJobs
  /\ IF StageQueue(stage) \in QueueNames
     THEN /\ addJob(StageQueue(stage), StageJobName(stage), NoData)
          /\ UNCHANGED addError
     ELSE /\ addError' = "Unknown queue"
          /\ UNCHANGED <<jobs, jobRecs>>
  /\ UNCHANGED <<projectStatus, slides, scripts, videos, rvResult, ppCall,
                 extraction, quotes>>
  /\ UNCHANGED creditVars

Init ==
  /\ credits = SeedCredits
  /\ calls = [c \in CallIds |-> IdleCall]
  /\ txLog = <<>>
  /\ InitPipe

Next ==
  \/ UploadPresentation
  \/ RenderVideo
  \/ \E j \in JobIds : JobLedgerCreate(j)
  \/ \E j \in JobIds : WorkerTake(j)
  \/ \E j \in JobIds : pptParseJob(j)
  \/ \E j \in JobIds : videoRenderJob(j)
  \/ \E j \in JobIds : CatchVideo(j)
  \/ \E j \in JobIds : CatchProject(j)
  \/ \E j \in JobIds : CatchJob(j)

Spec == Init /\ [][Next]_vars

(***************************************************************************)
(* The routing of the jobs of the five stages: enqueued by name, taken by  *)
(* the worker of the queue.                                                *)
(***************************************************************************)
NextRouting ==
  \/ \E stage \in StageTypes : AddStageJob(stage)
  \/ ParsePresentation
  \/ \E m \in 1..PlaceholderSlides : ParsePresentationQueueError(m)
  \/ \E j \in JobIds : JobLedgerCreate(j)
  \/ \E j \in JobIds : WorkerTake(j)

SpecRouting == Init /\ [][NextRouting]_vars

(***************************************************************************)
(* The extraction of the slides of a deck, on its own and inside the parse *)
(* job.                                                                    *)
(***************************************************************************)
NextExtract ==
  \/ \E input \in ExtractInputs : ExtractSlidesCall(input)
  \/ UploadPresentation
  \/ \E j \in JobIds : JobLedgerCreate(j)
  \/ \E j \in JobIds : WorkerTake(j)
  \/ \E j \in JobIds : pptParseJob(j)
  \/ \E j \in JobIds : CatchProject(j)
  \/ \E j \in JobIds : CatchJob(j)

SpecExtract == Init /\ [][NextExtract]_vars

(***************************************************************************)
(* The two pre-flight estimators, each asked once for any deck and options *)
(***************************************************************************)
\* a call of PricingCalculator.calculateProjectCredits
CalculateProjectCreditsCall(slideCount, hasCustomScript, hasSubtitles) ==
  /\ ~quotes.pricing.called
  /\ quotes' = [quotes EXCEPT !.pricing =
       [called |-> TRUE, slideCount |-> slideCount,
        hasCustomScript |-> hasCustomScript, hasSubtitles |-> hasSubtitles,
        videoQuality |-> "medium",
        halfCredits |-> 2 * calculateProjectCredits(slideCount,
                                                    hasCustomScript,
                                                    hasSubtitles)]]
  /\ UNCHANGED <<ppCall, addError, extraction>>
  /\ UNCHANGED <<creditVars, pipeVars>>

\* a call of CreditService.estimateProjectCredits
EstimateProjectCreditsCall(slideCount, hasCustomScript, hasSubtitles, videoQuality) ==
  /\ ~quotes.estimate.called
  /\ quotes' = [quotes EXCEPT !.estimate =
       [called |-> TRUE, slideCount |-> slideCount,
        hasCustomScript |-> hasCustomScript, hasSubtitles |-> hasSubtitles,
        videoQuality |-> videoQuality,
        halfCredits |-> estimateProjectCredits(slideCount, hasCustomScript,
                                               hasSubtitles, videoQuality)]]
  /\ UNCHANGED <<ppCall, addError, extraction>>
  /\ UNCHANGED <<creditVars, pipeVars>>

NextQuotes ==
  \/ \E slideCount \in 0..MaxSlideCount, hasCustomScript \in BOOLEAN,
        hasSubtitles \in BOOLEAN :
       CalculateProjectCreditsCall(slideCount, hasCustomScript, hasSubtitles)
  \/ \E slideCount \in 0..MaxSlideCount, hasCustomScript \in BOOLEAN,
        hasSubtitles \in BOOLEAN, videoQuality \in VideoQualities :
       EstimateProjectCreditsCall(slideCount, hasCustomScript, hasSubtitles,
                                  videoQuality)

SpecQuotes == Init /\ [][NextQuotes]_vars

(***************************************************************************)
(* The stages one at a time, with the scheduling of the workers: a BullMQ  *)
(* worker keeps polling its queue, so a waiting job is taken when its      *)
(* worker is free, and a handler that was entered runs on.  The calls of   *)
(* the web services are made by the user and need not happen.              *)
(***************************************************************************)
NextParseStage ==
  \/ UploadPresentation
  \/ \E s \in SlideIds : DeleteSlide(s)
  \/ \E s \in SlideIds, o \in 1..MaxSlides : ReorderSlides(s, o)
  \/ \E j \in JobIds : JobLedgerCreate(j)
  \/ \E j \in JobIds : WorkerTake(j)
  \/ \E j \in JobIds : pptParseJob(j)
  \/ \E j \in JobIds : CatchProject(j)
  \/ \E j \in JobIds : CatchJob(j)

SpecParseStage ==
  /\ Init
  /\ [][NextParseStage]_vars
  /\ WF_vars(\E j \in JobIds : WorkerTake(j))
  /\ WF_vars(\E j \in JobIds : pptParseJob(j))
  /\ WF_vars(\E j \in JobIds : CatchProject(j))
  /\ WF_vars(\E j \in JobIds : CatchJob(j))

NextScriptStage ==
  \/ ParsePresentation
  \/ \E j \in JobIds : JobLedgerCreate(j)
  \/ \E j \in JobIds : WorkerTake(j)
  \/ \E j \in JobIds : scriptGenerateJob(j)
  \/ \E j \in JobIds : CatchJob(j)

SpecScriptStage ==
  /\ Init
  /\ [][NextScriptStage]_vars
  /\ WF_vars(\E j \in JobIds : WorkerTake(j))
  /\ WF_vars(\E j \in JobIds : scriptGenerateJob(j))
  /\ WF_vars(\E j \in JobIds : CatchJob(j))

(***************************************************************************)
(* The web tier alone, no worker running, on a project whose deck was      *)
(* parsed before: any number of slides, each with or without audio.        *)
(***************************************************************************)
ParsedSlides ==
  UNION {[1..n -> {"null", "url"}] : n \in 0..MaxSlides}

InitWeb ==
  /\ credits = SeedCredits
  /\ plan = "PRO"
  /\ ppCall = IdlePP
  /\ addError = "none"
  /\ extraction = NoExtraction
  /\ quotes = NoQuotes
  /\ calls = [c \in CallIds |-> IdleCall]
  /\ txLog = <<>>
  /\ projectStatus \in {"DRAFT", "COMPLETED"}
  /\ \E a \in ParsedSlides :
       /\ slides = [i \in DOMAIN a |-> [NewSlide(i) EXCEPT !.audioUrl = a[i]]]
       /\ scripts \in {<<>>, [i \in DOMAIN a |-> NewScript(i)]}
  /\ videos = <<>>
  /\ jobs = <<>>
  /\ jobRecs = <<>>
  /\ rvResult = "none"

NextWeb ==
  \/ ParsePresentation
  \/ \E s \in SlideIds : GenerateScript(s)
  \/ \E s \in SlideIds : RegenerateScript(s)
  \/ \E k \in 1..Len(scripts) : UpdateVoiceSettings(k)
  \/ \E k \in 1..Len(scripts) : GenerateSpeech(k)
  \/ \E s \in SlideIds : DeleteAudio(s)
  \/ RenderVideo

SpecWeb == InitWeb /\ [][NextWeb]_vars

(***************************************************************************)
(* The render stage on a project whose deck was parsed before: renderVideo *)
(* and deleteVideo of the web tier, and the render worker.                 *)
(***************************************************************************)
NextRenderStage ==
  \/ \E k \in 1..Len(scripts) : GenerateSpeech(k)
  \/ RenderVideo
  \/ \E v \in 1..Len(videos) : DeleteVideo(v)
  \/ \E j \in JobIds : JobLedgerCreate(j)
  \/ \E j \in JobIds : WorkerTake(j)
  \/ \E j \in JobIds : videoRenderJob(j)
  \/ \E j \in JobIds : CatchVideo(j)
  \/ \E j \in JobIds : CatchProject(j)
  \/ \E j \in JobIds : CatchJob(j)

SpecRenderStage == InitWeb /\ [][NextRenderStage]_vars

(***************************************************************************)
(* The TTS stage alone on a project whose deck was parsed before.          *)
(***************************************************************************)
NextTtsJobs ==
  \/ \E s \in SlideIds : GenerateScript(s)
  \/ \E k \in 1..Len(scripts) : UpdateVoiceSettings(k)
  \/ \E j \in JobIds : JobLedgerCreate(j)
  \/ \E j \in JobIds : WorkerTake(j)
  \/ \E j \in JobIds : ttsGenerateJob(j)
  \/ \E j \in JobIds : CatchJob(j)

SpecTtsJobs == InitWeb /\ [][NextTtsJobs]_vars

(***************************************************************************)
(* The render stage followed by the subtitle stage.                        *)
(***************************************************************************)
\* videoRenderJob: `videos/${projectId}/${videoId}.mp4`
VideoUploadKey(projectId, videoId) ==
  [dir |-> "videos", projectId |-> projectId, name |-> videoId,
   ext |-> "mp4"]

\* subtitleGenerateJob: `videos/${projectId}/${videoId}.mp3`
VideoDownloadKey(projectId, videoId) ==
  [dir |-> "videos", projectId |-> projectId, name |-> videoId,
   ext |-> "mp3"]

\* the objects under videos/ that the renders recorded so far have stored:
\* a render uploads its video before it writes the url to the Video row
\* (an attempt that failed after its upload left an object of the same
\* form of key)
StoredVideoKeys ==
  {VideoUploadKey("projectId", v) :
     v \in {w \in 1..Len(videos) : videos[w].url # "null"}}

SubtitleJobsOf(v) ==
  {j \in JobIds : jobs[j].name = "subtitle-generate"
                    /\ jobs[j].data.videoId = v}

\* the orchestrator's step on a COMPLETED render: a SUBTITLE_GENERATE job
\* with payload (videoId, projectId) goes to the queue the subtitle worker
\* consumes
SubtitleEnqueue(v) ==
  /\ v \in VideoIds
  /\ videos[v].status = "COMPLETED"
  /\ SubtitleJobsOf(v) = {}
  /\ jobs' = Append(jobs, NewJob("subtitle-generation", "subtitle-generate",
                                 [NoData EXCEPT !.videoId = v]))
  /\ jobRecs' = Append(jobRecs, NoRec)
  /\ UNCHANGED <<projectStatus, slides, scripts, videos, rvResult>>
  /\ UNCHANGED <<creditVars, webVars>>

\* apps/worker/src/jobs/script.generate.ts, subtitleGenerateJob
subtitleGenerateJob(j) ==
  /\ UNCHANGED <<projectStatus, slides, scripts, videos, rvResult>>
  /\ UNCHANGED <<creditVars, webVars>>
  /\ \/ /\ Running(j, "subtitleGenerateJob", "start")
        /\ Checkpoint(j, 10, "video")
     \/ /\ Running(j, "subtitleGenerateJob", "video")
        /\ IF jobs[j].data.videoId \in VideoIds
           THEN Checkpoint(j, 20, "download")
           ELSE Throw(j)                     \* 'Video not found'
     \/ /\ Running(j, "subtitleGenerateJob", "download")
        /\ IF VideoDownloadKey("projectId", jobs[j].data.videoId)
                \in StoredVideoKeys
           THEN Checkpoint(j, 30, "prepared")
           ELSE Throw(j)                     \* storageService.downloadFile
     \/ /\ Running(j, "subtitleGenerateJob", "prepared")
        /\ Checkpoint(j, 50, "subtitles")
     \/ /\ Running(j, "subtitleGenerateJob", "subtitles")
        /\ \/ Throw(j)                       \* ffmpegService.generateSubtitles
           \/ Checkpoint(j, 80, "upload")
     \/ /\ Running(j, "subtitleGenerateJob", "upload")
        /\ \/ Throw(j)                       \* storageService.uploadBuffer
           \/ Checkpoint(j, 90, "record")
     \/ /\ Running(j, "subtitleGenerateJob", "record")
        /\ IF jobs[j].data.videoId \in VideoIds
           THEN Goto(j, "complete") /\ UNCHANGED jobRecs
           ELSE Throw(j)                     \* db.video.update rejects
     \/ /\ Running(j, "subtitleGenerateJob", "complete")
        /\ Complete(j)

NextSubtitle ==
  \/ RenderVideo
  \/ \E v \in 1..Len(videos) : SubtitleEnqueue(v)
  \/ \E j \in JobIds : JobLedgerCreate(j)
  \/ \E j \in JobIds : WorkerTake(j)
  \/ \E j \in JobIds : videoRenderJob(j)
  \/ \E j \in JobIds : subtitleGenerateJob(j)
  \/ \E j \in JobIds : CatchVideo(j)
  \/ \E j \in JobIds : CatchProject(j)
  \/ \E j \in JobIds : CatchJob(j)

SpecSubtitle == InitWeb /\ [][NextSubtitle]_vars

(***************************************************************************)
(* The TTS stage with a speech call that may never settle, and the clock.  *)
(***************************************************************************)
\* JOB_TIMEOUTS, in minutes
JOB_TIMEOUTS ==
  [t \in StageTypes |->
     CASE t = "PPT_PARSE" -> 1
       [] t = "SCRIPT_GENERATE" -> 2
       [] t = "TTS_GENERATE" -> 5
       [] t = "VIDEO_RENDER" -> 10
       [] t = "SUBTITLE_GENERATE" -> 1]

\* the JOB_TIMEOUTS entry of the stage a job of this name runs
JobTimeout(name) ==
  CASE name = "ppt-parse" -> JOB_TIMEOUTS["PPT_PARSE"]
    [] name = "script-generate" -> JOB_TIMEOUTS["SCRIPT_GENERATE"]
    [] name = "tts-generate" -> JOB_TIMEOUTS["TTS_GENERATE"]
    [] name = "video-render" -> JOB_TIMEOUTS["VIDEO_RENDER"]
    [] name = "subtitle-generate" -> JOB_TIMEOUTS["SUBTITLE_GENERATE"]

\* `await aiService.generateSpeech(...)` on a promise that never settles: the
\* handler stays at the await, nothing in the worker bounds the wait
SpeechPending(j) ==
  /\ Running(j, "ttsGenerateJob", "speech")
  /\ Goto(j, "speechPending")
  /\ UNCHANGED <<projectStatus, slides, scripts, videos, jobRecs, rvResult>>
  /\ UNCHANGED <<creditVars, webVars>>

\* a minute passes for a job whose handler waits; no code runs
Tick(j) ==
  /\ jobs[j].state = "active"
  /\ jobs[j].pc = "speechPending"
  /\ jobs[j].elapsed < MaxElapsed
  /\ jobs' = [jobs EXCEPT ![j] = [@ EXCEPT !.elapsed = @ + 1]]
  /\ UNCHANGED <<projectStatus, slides, scripts, videos, jobRecs, rvResult>>
  /\ UNCHANGED <<creditVars, webVars>>

NextTimeout ==
  \/ NextTtsJobs
  \/ \E j \in JobIds : SpeechPending(j)
  \/ \E j \in JobIds : Tick(j)

SpecTimeout ==
  /\ InitWeb
  /\ [][NextTimeout]_vars
  /\ WF_vars(\E j \in JobIds : WorkerTake(j))
  /\ WF_vars(\E j \in JobIds : ttsGenerateJob(j))
  /\ WF_vars(\E j \in JobIds : CatchJob(j))
  /\ WF_vars(\E j \in JobIds : Tick(j))

(***************************************************************************)
(* The TTS and render stages on a project whose deck was parsed before,    *)
(* with the scheduling of the workers.                                     *)
(***************************************************************************)
NextTtsStage ==
  \/ \E s \in SlideIds : GenerateScript(s)
  \/ \E k \in 1..Len(scripts) : UpdateVoiceSettings(k)
  \/ RenderVideo
  \/ \E j \in JobIds : JobLedgerCreate(j)
  \/ \E j \in JobIds : WorkerTake(j)
  \/ \E j \in JobIds : ttsGenerateJob(j)
  \/ \E j \in JobIds : videoRenderJob(j)
  \/ \E j \in JobIds : CatchVideo(j)
  \/ \E j \in JobIds : CatchProject(j)
  \/ \E j \in JobIds : CatchJob(j)

SpecTtsStage ==
  /\ InitWeb
  /\ [][NextTtsStage]_vars
  /\ WF_vars(\E j \in JobIds : WorkerTake(j))
  /\ WF_vars(\E j \in JobIds : ttsGenerateJob(j))
  /\ WF_vars(\E j \in JobIds : videoRenderJob(j))
  /\ WF_vars(\E j \in JobIds : CatchVideo(j))
  /\ WF_vars(\E j \in JobIds : CatchProject(j))
  /\ WF_vars(\E j \in JobIds : CatchJob(j))

(***************************************************************************)
(* The slide operations of PPTService on a project whose deck was parsed   *)
(* before.                                                                 *)
(***************************************************************************)
NextSlides ==
  \/ ParsePresentation
  \/ \E s \in SlideIds : DeleteSlide(s)
  \/ \E s \in SlideIds, o \in 1..MaxSlides : ReorderSlides(s, o)

SpecSlides == InitWeb /\ [][NextSlides]_vars

(***************************************************************************)
(* Properties of the credit service.                                       *)
(***************************************************************************)

\* C1: under every interleaving of concurrent deductCredits calls the stored
\* balance is never negative, that is, the calls that decrement it have a
\* cumulative cost that fits within the balance.
C1_NoOverdraft == credits >= 0

\* C2: the debit is idempotent per job: the balance is mutated at most once
\* for a (job id, stage type) pair, however many times the debit is called
\* for it.
C2_DebitOncePerJob ==
  \A j \in 1..MaxJobIds, t \in StageTypes :
    Cardinality({c \in CallIds : /\ calls[c].mutated
                                 /\ calls[c].job = j
                                 /\ calls[c].jobType = t}) <= 1

\* C5: a deductCredits whose cost exceeds the balance it reads fails with an
\* insufficient-credits error and leaves the balance unchanged; one whose cost
\* is at most the balance goes on to succeed and its update makes the balance
\* the old balance minus the cost, which it returns; a zero-cost stage (parse)
\* succeeds at once and leaves the balance unchanged.
C5_DeductOutcome ==
  [][\A c \in CallIds :
       /\ (calls[c].pc = "idle" /\ calls'[c].pc # "idle")
            => /\ credits' = credits
               /\ (calls'[c].jobType = "PPT_PARSE" \/ calls'[c].cost = 0)
                    => (calls'[c].pc = "done" /\ calls'[c].deducted = 0)
       /\ (calls[c].pc = "find" /\ calls'[c].pc # "find")
            => /\ credits' = credits
               /\ IF calls[c].cost > credits
                  THEN /\ calls'[c].pc = "failed"
                       /\ calls'[c].error = "Insufficient credits"
                  ELSE calls'[c].pc = "update"
       /\ (calls[c].pc = "update" /\ calls'[c].pc # "update")
            => /\ credits' = credits - calls[c].cost
               /\ calls'[c].remaining = credits'
               /\ calls'[c].pc = "log"
       /\ (calls[c].pc = "log" /\ calls'[c].pc # "log")
            => /\ credits' = credits
               /\ calls'[c].pc = "done"
               /\ calls'[c].deducted = calls[c].cost
       /\ (calls[c].pc \in {"done", "failed"}) => calls'[c] = calls[c]
    ]_vars

\* one call was refused for a cost above the balance, another one succeeded
\* with a cost the balance covered
C5_Witness ==
  \E c, d \in CallIds :
    /\ calls[c].pc = "failed" /\ calls[c].cost > calls[c].read
    /\ calls[d].pc = "done" /\ calls[d].cost > 0
    /\ calls[d].cost <= calls[d].read
    /\ calls[d].remaining = calls[d].read - calls[d].cost

(***************************************************************************)
(* Properties of the pipeline.                                             *)
(***************************************************************************)

\* C3: while a Job record is not COMPLETED or FAILED, every write of its
\* progress (checkpoint, failure path, re-execution) stores a value greater
\* than or equal to the value stored before.
C3_ProgressMonotone ==
  [][\A j \in JobIds :
       (jobRecs[j].exists /\ jobRecs[j].status \notin Terminal)
         => jobRecs'[j].progress >= jobRecs[j].progress]_vars

\* C4: once a Job record is COMPLETED or FAILED nothing changes its status,
\* progress, result or error, and the queue does not execute the job again.
C4_TerminalJobFrozen ==
  [][\A j \in JobIds :
       (jobRecs[j].exists /\ jobRecs[j].status \in Terminal)
         => /\ jobRecs'[j] = jobRecs[j]
            /\ jobs'[j].state # "active"]_vars

\* C6: renderVideo creates a Video record and queues a VIDEO_RENDER job only
\* in a state where every slide of the project has an audioUrl, and then
\* creates both; called while a slide lacks audio it fails and creates
\* neither.
C6_RenderOnlyWithAudio ==
  [][LET RenderJobs(q) == {j \in 1..Len(q) : q[j].name = "video-render"}
         missing == \E i \in SlideIds : slides[i].audioUrl = "null"
     IN /\ (Len(videos') # Len(videos) \/ RenderJobs(jobs') # RenderJobs(jobs))
             => /\ ~missing
                /\ Len(videos') = Len(videos) + 1
                /\ videos'[Len(videos')].status = "PENDING"
                /\ Len(jobs') = Len(jobs) + 1
                /\ jobs'[Len(jobs')].queue = "video-rendering"
                /\ jobs'[Len(jobs')].name = "video-render"
                /\ jobs'[Len(jobs')].data.videoId = Len(videos')
                /\ rvResult' = "created"
        /\ missing => /\ Len(videos') = Len(videos)
                      /\ RenderJobs(jobs') = RenderJobs(jobs)
                      /\ rvResult' \in {rvResult, "failed"}
        /\ (rvResult' # rvResult) => (rvResult' = "failed" <=> missing)
    ]_vars

\* renderVideo created the Video and queued its render job for a project of
\* two or more slides, all of which had audio when it read them
C6_Witness ==
  /\ rvResult = "created"
  /\ Len(videos) = 1
  /\ \E j \in JobIds :
       /\ jobs[j].name = "video-render"
       /\ jobs[j].data.videoId = 1
       /\ Len(jobs[j].data.slides) >= 2
       /\ \A i \in 1..Len(jobs[j].data.slides) :
            jobs[j].data.slides[i].audioUrl = "url"

\* C7: whenever a Video is PROCESSING every slide of its project has an
\* audioUrl.
C7_ProcessingHasAudio ==
  \A v \in 1..Len(videos) :
    videos[v].status = "PROCESSING"
      => \A i \in SlideIds : slides[i].audioUrl # "null"

\* C8: when a job of any stage type is marked FAILED the project is FAILED,
\* and so is the job's Video when it has one.
C8_FailurePropagates ==
  [][\A j \in JobIds :
       (jobRecs'[j].status = "FAILED" /\ jobRecs[j].status # "FAILED")
         => /\ projectStatus' = "FAILED"
            /\ jobs[j].data.videoId \in 1..Len(videos)
                 => videos'[jobs[j].data.videoId].status = "FAILED"]_vars

\* C9: a Project that is COMPLETED or FAILED keeps its status, and so does a
\* Video that is COMPLETED or FAILED.
C9_TerminalStatusFrozen ==
  [][/\ projectStatus \in Terminal => projectStatus' = projectStatus
     /\ \A v \in 1..Len(videos) :
          videos[v].status \in Terminal => videos'[v].status = videos[v].status
    ]_vars

\* C10: the Project is COMPLETED only if a VIDEO_RENDER job of the project
\* has COMPLETED.
C10_CompletedNeedsRender ==
  projectStatus = "COMPLETED"
    => \E j \in JobIds : /\ jobs[j].name = "video-render"
                          /\ jobRecs[j].status = "COMPLETED"

(***************************************************************************)
(* Properties of the pipeline as a whole.                                  *)
(***************************************************************************)

\* C11: when the pipeline has run to completion on a project of N slides
\* (Project COMPLETED, its Video COMPLETED with a url), the balance is the
\* initial balance less N script costs, N TTS costs, one render cost and one
\* subtitle cost.
C11_PipelineCharge ==
  \A v \in 1..Len(videos) :
    (/\ Len(slides) >= 1
     /\ projectStatus = "COMPLETED"
     /\ videos[v].status = "COMPLETED"
     /\ videos[v].url # "null")
      => credits = SeedCredits
                     - (Len(slides) * CREDIT_COSTS["SCRIPT_GENERATE"]
                        + Len(slides) * CREDIT_COSTS["TTS_GENERATE"]
                        + CREDIT_COSTS["VIDEO_RENDER"]
                        + CREDIT_COSTS["SUBTITLE_GENERATE"])

\* CREDIT_COSTS of the stage a queued job belongs to: the names of the web
\* JobType enum against the keys of CREDIT_COSTS
JobCost(name) ==
  CASE name = "ppt-parse" -> CREDIT_COSTS["PPT_PARSE"]
    [] name = "script-generate" -> CREDIT_COSTS["SCRIPT_GENERATE"]
    [] name = "tts-generate" -> CREDIT_COSTS["TTS_GENERATE"]
    [] name = "video-render" -> CREDIT_COSTS["VIDEO_RENDER"]
    [] name = "subtitle-generate" -> CREDIT_COSTS["SUBTITLE_GENERATE"]
    [] OTHER -> 0

\* the credits of the DEDUCTION transactions recorded so far
Debited ==
  SumOver([k \in DOMAIN txLog |->
             IF txLog[k].type = "DEDUCTION" THEN txLog[k].amount ELSE 0],
          DOMAIN txLog)

\* C12: a job of a stage that costs credits is in its queue only after the
\* debit for it succeeded: the credits debited so far cover the costs of all
\* the jobs enqueued so far.
C12_EnqueueAfterDebit ==
  SumOver([j \in JobIds |-> JobCost(jobs[j].name)], JobIds) <= Debited

C15_OneScriptPerSlide ==
  \A s \in LiveSlides : Cardinality(ScriptsOf(s)) <= 1

\* C14: the orders of the slides of the project are pairwise distinct and
\* are exactly 1..n, n the number of slides.
C14_OrdersContiguous ==
  {slides[i].order : i \in LiveSlides} = 1..Cardinality(LiveSlides)

\* the credits of the recorded transactions, ADDITION counted positive and
\* DEDUCTION negative
SignedSum ==
  SumOver([k \in DOMAIN txLog |->
             IF txLog[k].type = "ADDITION" THEN txLog[k].amount
             ELSE 0 - txLog[k].amount],
          DOMAIN txLog)

\* C16: when no credit call is under way, the balance is the initial balance
\* plus the signed sum of the transactions recorded through
\* createCreditTransaction.
C16_BalanceIsLedgerSum ==
  (\A c \in CallIds : calls[c].pc \in {"idle", "done", "failed"})
    => credits = SeedCredits + SignedSum

\* C17: a job that was enqueued through addJob has its Job record, created
\* PENDING with progress 0, by the time a worker runs its handler.
C17_RecordBeforeHandler ==
  \A j \in JobIds : jobs[j].state = "active" => jobRecs[j].exists

(***************************************************************************)
(* Behaviour of the stages.                                                *)
(***************************************************************************)

ParseCompleted ==
  \E j \in JobIds : /\ jobs[j].name = "ppt-parse"
                    /\ jobRecs[j].status = "COMPLETED"

ScriptJobsOf(s) ==
  {j \in JobIds : jobs[j].name = "script-generate" /\ jobs[j].data.slideId = s}

\* C18: after a parse job is COMPLETED with the slides it persisted, a
\* SCRIPT_GENERATE job is eventually enqueued for each persisted slide,
\* exactly one for each.
C18_ParseLeadsToScriptJobs ==
  ParseCompleted
    ~> (\A s \in LiveSlides : Cardinality(ScriptJobsOf(s)) = 1)

ScriptCompleted ==
  \E j \in JobIds : /\ jobs[j].name = "script-generate"
                    /\ jobRecs[j].status = "COMPLETED"

TtsJobsOf(k) ==
  {j \in TtsJobs : /\ jobs[j].data.scriptId = k
                   /\ jobs[j].data.content = scripts[k].content
                   /\ jobs[j].data.voiceSettings = scripts[k].voiceSettings}

\* C19: after a script job is COMPLETED its Script is persisted and a
\* TTS_GENERATE job that carries the script's id, content and voice settings
\* is eventually enqueued, exactly one for the script.
C19_ScriptLeadsToTtsJob ==
  ScriptCompleted
    ~> (/\ ScriptIds # {}
        /\ \A k \in ScriptIds : Cardinality(TtsJobsOf(k)) = 1)

\* a TTS job is COMPLETED and no slide of the project lacks audio
LastAudioStored ==
  /\ \E j \in TtsJobs : jobRecs[j].status = "COMPLETED"
  /\ LiveSlides # {}
  /\ SlidesWithoutAudio(slides) = {}

RenderJobs == {j \in JobIds : jobs[j].name = "video-render"}

\* C20: when a TTS job has completed and stored the audio of the last slide
\* that lacked it, a VIDEO_RENDER job of the project is eventually enqueued,
\* exactly one.
C20_LastAudioLeadsToRender ==
  LastAudioStored ~> (Cardinality(RenderJobs) = 1)

\* C21: for each of the five stages addJob accepts the queue name of the
\* stage and the worker of that queue has a handler for the job name: no
\* enqueue is rejected with 'Unknown queue' and no queued job is of a type
\* its worker does not know.
C21_StagesRouted ==
  /\ addError # "Unknown queue"
  /\ \A j \in JobIds : WorkerHandler(jobs[j].queue, jobs[j].name) # "unknown"

\* C22: when a handler run ends by throwing, the Job record of the job is
\* FAILED with the error message stored, and for a render job the Project is
\* FAILED and so is the Video when there is one.
C22_ThrowLeavesFailed ==
  [][\A j \in JobIds :
       (/\ jobs[j].state = "active"
        /\ jobs'[j].state \in {"waiting", "failed"}
        /\ jobRecs[j].exists)
         => /\ jobRecs'[j].status = "FAILED"
            /\ jobRecs'[j].error # "null"
            /\ jobs[j].name = "video-render"
                 => /\ projectStatus' = "FAILED"
                    /\ jobs[j].data.videoId \in VideoIds
                         => videos'[jobs[j].data.videoId].status = "FAILED"]_vars

\* C23: extractSlides never returns an empty list, and returns the mock
\* slides when the conversion throws or when nothing is parsed from the
\* text; in the parse job the extraction step never leads to the catch block
\* of a job that has its record, and what the job then persists is not empty.
C23_ExtractFallsBack ==
  /\ [](extraction.called
          => /\ extraction.result # <<>>
             /\ (extraction.throws \/ ParsedFromText(extraction.text) = <<>>)
                  => extraction.result = MockSlides)
  /\ [][\A j \in JobIds :
          (/\ Running(j, "pptParseJob", "extract")
           /\ jobRecs[j].exists
           /\ jobs'[j] # jobs[j])
            => /\ jobs'[j].pc = "save"
               /\ jobs'[j].extracted # <<>>]_vars

\* extractSlides was called with a conversion that threw, and a parse job
\* that extracted the mock slides persisted them and is COMPLETED
C23_Witness ==
  /\ extraction.called /\ extraction.throws
  /\ \E j \in JobIds : /\ jobs[j].extracted = MockSlides
                        /\ jobRecs[j].status = "COMPLETED"
                        /\ Len(slides) = Len(MockSlides)

\* C24: when the enqueue of the script job of one slide fails in
\* parsePresentation, the script jobs of the other slides it saved are
\* enqueued all the same.
C24_SiblingsEnqueued ==
  ppCall.pc \in {"done", "failed"}
    => \A i \in 1..Len(ppCall.savedSlides) :
         i # ppCall.failedAt => ScriptJobsOf(ppCall.savedSlides[i]) # {}

C26_NoJobAfterFailed ==
  [][projectStatus = "FAILED" => Len(jobs') = Len(jobs)]_vars

\* C27: with no custom script and subtitles enabled, each estimator returns
\* N*1 + N*2 + 5 + 1 credits for N slides, at every video quality.
C27_EstimatorsMatchCharge ==
  \A q \in {quotes.pricing, quotes.estimate} :
    (q.called /\ ~q.hasCustomScript /\ q.hasSubtitles)
      => q.halfCredits = 2 * (q.slideCount * 1 + q.slideCount * 2 + 5 + 1)

\* C28: a job that has been RUNNING for longer than the JOB_TIMEOUTS entry of
\* its stage is eventually marked FAILED.
C28_TimeoutFails ==
  \A j \in 1..MaxScripts :
    (/\ j \in JobIds
     /\ jobRecs[j].exists
     /\ jobRecs[j].status = "RUNNING"
     /\ jobs[j].elapsed > JobTimeout(jobs[j].name))
      ~> (j \in JobIds /\ jobRecs[j].status = "FAILED")

\* C29: the download step of a subtitle job whose video is COMPLETED finds
\* the object the render uploaded: the handler goes on and does not throw.
C29_SubtitleFindsVideo ==
  [][\A j \in JobIds :
       (/\ Running(j, "subtitleGenerateJob", "download")
        /\ videos[jobs[j].data.videoId].status = "COMPLETED"
        /\ jobs'[j] # jobs[j])
         => jobs'[j].pc = "prepared"]_vars

\* C30: after an upgradePlan call that ran alone, the stored balance is the
\* balance before the call plus the creditsAdded the call returns, and the
\* newBalance it returns is the stored balance; an upgradePlan to the current
\* plan fails and leaves plan and balance as they were.
C30_UpgradeAddsOnce ==
  \A c \in CallIds :
    (/\ calls[c].op = "upgradePlan"
     /\ \A d \in CallIds \ {c} : calls[d] = IdleCall)
      => /\ calls[c].pc = "done"
              => /\ credits = SeedCredits + calls[c].cost
                 /\ calls[c].newBalance = credits
         /\ calls[c].pc = "failed"
              => /\ plan = "PRO"
                 /\ credits = SeedCredits

====
